---- MODULE Spec2Model ----
(***************************************************************************)
(* Vault provider authentication: setAuth, checkToken, revokeTokenIfValid  *)
(* and useAuthNamespace of pkg/provider/vault/auth.go.                     *)
(*                                                                         *)
(* The client handle (active namespace, held token) is shared state.  A    *)
(* call is a sequence of steps of one flow; the backend (token lookup,     *)
(* revoke, mechanism logins) is the environment and answers each call      *)
(* with any outcome it can produce.                                        *)
(***************************************************************************)
EXTENDS Integers, Sequences, FiniteSets, TLC

VARIABLES store, clientNs, token, pc, op, restore, trace, ret, prevCleared, inRow,
          metrics, overlap, saCfg, saCall, backend

vars == <<store, clientNs, token, pc, op, restore, trace, ret, prevCleared, inRow,
          metrics, overlap, saCfg, saCall, backend>>

(***************************************************************************)
(* Bounds and program constants                                            *)
(***************************************************************************)
\* at most this many mechanism sub-configs are populated in store.Auth
MaxMechs == 2

\* tokens living for less than this many seconds count as expired
ExpiryBufferSeconds == 60

\* flows that may use the handle; Spec runs the single owner only
Procs == {"owner", "other"}
Owner == "owner"

\* a nil *string
Nil == "<nil>"
\* namespace names an operator can configure: one operating namespace and
\* auth namespaces equal to it and different from it
StoreNsNames == {"a"}
AuthNsNames == {"a", "b"}
\* non-empty token strings
Tokens == {"t1", "t2"}

(***************************************************************************)
(* Errors: an error is the chain of its messages, outermost first          *)
(* (fmt.Errorf with %w prepends a message); nil is the empty chain.        *)
(***************************************************************************)
NilErr == <<>>
errAuthFormat == <<"cannot initialize Vault client: no valid auth method specified">>
errVaultRevokeToken == "error while revoking token"
Wrap(msg, err) == <<msg>> \o err

(***************************************************************************)
(* Values of a response's Data map (map[string]interface{}, numbers        *)
(* decoded as json.Number, i.e. as their decimal text).                    *)
(***************************************************************************)
Str(s) == [t |-> "string", s |-> s, n |-> <<>>]
Num(d) == [t |-> "json.Number", s |-> "", n |-> d]
Null == [t |-> "nil", s |-> "", n |-> <<>>]

DigitVal(c) ==
    CASE c = "0" -> 0 [] c = "1" -> 1 [] c = "2" -> 2 [] c = "3" -> 3
      [] c = "4" -> 4 [] c = "5" -> 5 [] c = "6" -> 6 [] c = "7" -> 7
      [] c = "8" -> 8 [] c = "9" -> 9 [] OTHER -> -1

RECURSIVE ParseDigits(_, _)
\* the value of a digit string, or -1 when a character is no digit
ParseDigits(d, acc) ==
    IF d = <<>> THEN acc
    ELSE IF DigitVal(Head(d)) < 0 THEN -1
    ELSE ParseDigits(Tail(d), 10 * acc + DigitVal(Head(d)))

\* json.Number.Int64: strconv.ParseInt(text, 10, 64); an optional sign, then
\* one or more decimal digits.  (The texts of the model are short: the
\* out-of-range failure of ParseInt does not arise.)
Int64(d) ==
    LET neg == d # <<>> /\ Head(d) = "-"
        body == IF d # <<>> /\ Head(d) \in {"-", "+"} THEN Tail(d) ELSE d
        v == ParseDigits(body, 0)
    IN  IF body = <<>> \/ v < 0
        THEN [ok |-> FALSE, val |-> 0]
        ELSE [ok |-> TRUE, val |-> IF neg THEN 0 - v ELSE v]

(***************************************************************************)
(* Results of token.LookupSelfWithContext: an error, (nil, nil), or a      *)
(* secret with a Data map.                                                 *)
(***************************************************************************)
Keys == {"type", "ttl", "expire_time"}
EmptyData == [k \in {} |-> Null]
NoResp == [kind |-> "none", e |-> NilErr, data |-> EmptyData]
LookupErr(e) == [kind |-> "err", e |-> e, data |-> EmptyData]
NilResp == [kind |-> "nil", e |-> NilErr, data |-> EmptyData]
Secret(d) == [kind |-> "secret", e |-> NilErr, data |-> d]

TypeVals == {Str("service"), Str("batch"), Null}
TtlVals == {Num(<<"5", "9">>), Num(<<"6", "0">>), Num(<<"3", "6", "0", "0">>),
            Num(<<"0">>), Num(<<"-", "1">>), Num(<<"1", ".", "5">>), Str("60")}
ExpireVals == {Null, Str("2030-01-01T00:00:00Z")}
ValsFor(k) ==
    CASE k = "type" -> TypeVals [] k = "ttl" -> TtlVals [] OTHER -> ExpireVals

DataMaps ==
    UNION {{f \in [K -> TypeVals \cup TtlVals \cup ExpireVals] :
               \A k \in K : f[k] \in ValsFor(k)} : K \in SUBSET Keys}

LookupErrors == {<<"permission denied">>, <<"context canceled">>}
\* every result of the lookup call the model knows
LookupResults ==
    {LookupErr(e) : e \in LookupErrors} \cup {NilResp} \cup {Secret(d) : d \in DataMaps}

\* a Data map with the given values; Absent leaves the key out
Absent == [t |-> "absent", s |-> "", n |-> <<>>]
Data(type, ttl, expire) ==
    LET val(k) == CASE k = "type" -> type [] k = "ttl" -> ttl [] OTHER -> expire
    IN  [k \in {x \in Keys : val(x) # Absent} |-> val(k)]

Expiry == Str("2030-01-01T00:00:00Z")
\* the results a session's backend answers with: an error, (nil, nil), and
\* secrets of every shape checkToken tells apart
SessionData ==
    {Data(Str("service"), Num(<<"5", "9">>), Expiry),
     Data(Str("service"), Num(<<"5", "9">>), Null),
     Data(Str("service"), Num(<<"6", "0">>), Expiry),
     Data(Str("service"), Num(<<"6", "0">>), Null),
     Data(Str("batch"), Num(<<"3", "6", "0", "0">>), Expiry),
     Data(Str("batch"), Absent, Absent),
     Data(Absent, Absent, Absent),
     Data(Str("service"), Absent, Expiry),
     Data(Str("service"), Num(<<"6", "0">>), Absent),
     Data(Str("service"), Num(<<"1", ".", "5">>), Expiry),
     Data(Null, Num(<<"6", "0">>), Expiry)}
SessionLookups ==
    {LookupErr(<<"permission denied">>), NilResp} \cup {Secret(d) : d \in SessionData}

(***************************************************************************)
(* checkToken (auth.go 152-191), on the result of the lookup call.         *)
(* panic: a failed type assertion t.(string) or ttl.(json.Number).         *)
(***************************************************************************)
CheckResult(valid, err) == [valid |-> valid, err |-> err, panic |-> FALSE]
CheckPanic == [valid |-> FALSE, err |-> NilErr, panic |-> TRUE]

\* a map index that reports every key as present (the zero value when not)
dataField_alwaysOk(resp, key) ==
    IF key \in DOMAIN resp.data
    THEN [ok |-> TRUE, v |-> resp.data[key]]
    ELSE [ok |-> TRUE, v |-> Null]

\* v, ok := resp.Data[key]
dataField(resp, key) ==
    IF key \in DOMAIN resp.data
    THEN [ok |-> TRUE, v |-> resp.data[key]]
    ELSE [ok |-> FALSE, v |-> Null]

\* a check that excludes no token type
isBatch_never(tokenType) == FALSE

\* tokenType == "batch"
isBatch(tokenType) == tokenType = "batch"

\* an expiry buffer that ignores whether the token expires at all
aboutToExpire_anyToken(ttlInt, expireTime) == ttlInt < ExpiryBufferSeconds

\* ttlInt < 60 && expireTime != nil
aboutToExpire(ttlInt, expireTime) ==
    ttlInt < ExpiryBufferSeconds /\ expireTime # Null

checkToken(resp) ==
    LET t == dataField(resp, "type")
        ttl == dataField(resp, "ttl")
        ttlInt == Int64(ttl.v.n)
        expireTime == dataField(resp, "expire_time")
    IN  IF resp.kind = "err" THEN CheckResult(FALSE, resp.e)
        ELSE IF resp.kind = "nil"
        THEN CheckResult(FALSE, <<"no response nor error for token lookup">>)
        ELSE IF ~t.ok THEN CheckResult(FALSE, <<"could not assert token type">>)
        ELSE IF t.v.t # "string" THEN CheckPanic
        ELSE IF isBatch(t.v.s) THEN CheckResult(FALSE, NilErr)
        ELSE IF ~ttl.ok THEN CheckResult(FALSE, <<"no TTL found in response">>)
        ELSE IF ttl.v.t # "json.Number" THEN CheckPanic
        ELSE IF ~ttlInt.ok
        THEN CheckResult(FALSE, Wrap("invalid token TTL", <<"strconv.ParseInt: invalid syntax">>))
        ELSE IF ~expireTime.ok
        THEN CheckResult(FALSE, <<"no expiration time found in response">>)
        ELSE IF aboutToExpire(ttlInt.val, expireTime.v) THEN CheckResult(FALSE, NilErr)
        ELSE CheckResult(TRUE, NilErr)

(***************************************************************************)
(* Events of a call: every backend interaction and every strategy          *)
(* invocation, with the handle's namespace and token at that moment.       *)
(***************************************************************************)
CallLookupSelf == "lookup-self"
CallRevokeSelf == "revoke-self"
Event(name, resp, ok, err) ==
    [op |-> name, ns |-> clientNs, tok |-> token, resp |-> resp, ok |-> ok, err |-> err]

\* metrics.ObserveAPICall(provider, call, err): what a call hands to the sink
Observation(call, err) == [call |-> call, err |-> err]

\* an observation made after the checks, tagged with checkToken's own error
lookupCallErr_checked(resp) == checkToken(resp).err

\* the err of resp, err := token.LookupSelfWithContext(ctx) (auth.go 154)
lookupCallErr(resp) == IF resp.kind = "err" THEN resp.e ELSE NilErr

\* a validation that drops the token it found invalid
tokenAfterCheck_clearInvalid(held, res) == IF res.valid THEN held ELSE ""

\* checkToken leaves the token of the handle as it is (auth.go 152-191)
tokenAfterCheck(held, res) == held

\* results of a call
NoRet == [state |-> "none", err |-> NilErr]
Running == [state |-> "running", err |-> NilErr]
Return(err) == [state |-> "returned", err |-> err]
Panicked == [state |-> "panicked", err |-> NilErr]

(***************************************************************************)
(* The store configuration (c.store): Auth present or nil, the operating   *)
(* namespace, the auth namespace, and the populated mechanism sub-configs. *)
(***************************************************************************)
\* a chain that asks Kubernetes before AppRole
ChainOrder_kubernetesFirst ==
    <<"setSecretKeyToken", "setKubernetesAuthToken", "setAppRoleToken",
      "setLdapAuthToken", "setUserPassAuthToken", "setJwtAuthToken",
      "setCertAuthToken", "setIamAuthToken">>

\* setAuth's strategy calls, in the order of the code (auth.go 68-109)
ChainOrder ==
    <<"setSecretKeyToken", "setAppRoleToken", "setKubernetesAuthToken",
      "setLdapAuthToken", "setUserPassAuthToken", "setJwtAuthToken",
      "setCertAuthToken", "setIamAuthToken">>
Strategies == {ChainOrder[i] : i \in DOMAIN ChainOrder}

Stores ==
    {[auth |-> FALSE, ns |-> n, authNs |-> Nil, mechs |-> {}] : n \in StoreNsNames \cup {Nil}}
    \cup
    {[auth |-> TRUE, ns |-> n, authNs |-> an, mechs |-> m] :
        n \in StoreNsNames \cup {Nil}, an \in AuthNsNames \cup {Nil},
        m \in {x \in SUBSET Strategies : Cardinality(x) <= MaxMechs}}

\* a no-op restore function
NoOp == "<no-op>"

\* no service account token has been asked for
NoCfg == [storeKind |-> "", namespace |-> "",
          serviceAccountRef |-> [Name |-> "", Namespace |-> Nil, Audiences |-> <<>>],
          expirationSeconds |-> 0]
NoCall == [state |-> "none", seq |-> 0]

\* no flow has made a call yet
InitFlows ==
    /\ pc = [p \in Procs |-> "idle"]
    /\ op = [p \in Procs |-> "none"]
    /\ restore = [p \in Procs |-> NoOp]
    /\ trace = [p \in Procs |-> <<>>]
    /\ ret = [p \in Procs |-> NoRet]
    /\ prevCleared = FALSE
    /\ inRow = [p \in Procs |-> FALSE]
    /\ metrics = [p \in Procs |-> <<>>]
    /\ overlap = [p \in Procs |-> FALSE]

Init ==
    /\ store \in Stores
    /\ clientNs = ""
    /\ token \in {"", "t1"}
    /\ InitFlows
    /\ saCfg = NoCfg
    /\ saCall = NoCall
    /\ backend = SessionLookups

(***************************************************************************)
(* useAuthNamespace (auth.go 209-232): the handle's namespace after the    *)
(* call, given the one before it, and the namespace the returned restore   *)
(* function sets (NoOp: it sets none).                                     *)
(***************************************************************************)
operatingNs == IF store.ns # Nil THEN store.ns ELSE ""

\* an auth scope whose restore function is always the no-op
useAuthNamespace_noRestore(cur) ==
    IF store.auth /\ store.authNs # Nil /\ store.authNs # operatingNs
    THEN [ns |-> store.authNs, restore |-> NoOp]
    ELSE [ns |-> cur, restore |-> NoOp]

useAuthNamespace(cur) ==
    IF store.auth /\ store.authNs # Nil /\ store.authNs # operatingNs
    THEN [ns |-> store.authNs, restore |-> operatingNs]
    ELSE [ns |-> cur, restore |-> NoOp]

\* a call that leaves the handle's namespace as it finds it
setStoreNamespace_skip(cur) == cur

\* auth.go 50-52: c.client.SetNamespace(*c.store.Namespace) when it is set
setStoreNamespace(cur) == IF store.ns # Nil THEN store.ns ELSE cur

\* running a restore function
runRestore(r, cur) == IF r = NoOp THEN cur ELSE r

(***************************************************************************)
(* The mechanism strategies (setSecretKeyToken .. setIamAuthToken): each   *)
(* reports attempted = its sub-config is populated; an attempt either      *)
(* sets a new token on the handle or fails with the mechanism's error.     *)
(***************************************************************************)
attempted(name) == name \in store.mechs
acquisitionError(name) == <<name, "acquisition failed">>
\* a login issues a token the handle does not hold yet
newToken(held) == CHOOSE t \in Tokens : t # held
\* the outcomes of invoking a strategy: the token it leaves and its error
tryAcquire(name) ==
    IF attempted(name)
    THEN {[tok |-> newToken(token), err |-> NilErr],
          [tok |-> token, err |-> acquisitionError(name)]}
    ELSE {[tok |-> token, err |-> NilErr]}

RECURSIVE chainWalk(_)
\* a walk that invokes the attempted strategy a second time
chainWalk_retry(i) ==
    IF i > Len(ChainOrder) THEN <<>>
    ELSE IF attempted(ChainOrder[i]) THEN <<ChainOrder[i], ChainOrder[i]>>
    ELSE <<ChainOrder[i]>> \o chainWalk(i + 1)

\* the strategies setAuth invokes from position i on: each in turn, up to
\* and including the first that reports attempted (auth.go 68-113)
chainWalk(i) ==
    IF i > Len(ChainOrder) THEN <<>>
    ELSE IF attempted(ChainOrder[i]) THEN <<ChainOrder[i]>>
    ELSE <<ChainOrder[i]>> \o chainWalk(i + 1)

(***************************************************************************)
(* setAuth (auth.go 45-116)                                                *)
(***************************************************************************)
\* flows other than p that are inside a call
Busy(p) == {q \in Procs \ {p} : pc[q] # "idle"}

Begin(p, name) ==
    /\ pc[p] = "idle"
    /\ op' = [op EXCEPT ![p] = name]
    /\ inRow' = [inRow EXCEPT ![p] = prevCleared]
    /\ overlap' = [q \in Procs |->
                     IF q = p THEN Busy(p) # {} ELSE overlap[q] \/ q \in Busy(p)]

\* a setAuth without the nil check
authConfigured_always == TRUE

\* 46: c.store.Auth != nil
authConfigured == store.auth

\* 45-56: the nil check, the operating namespace, the auth scope
setAuthEnter(p) ==
    /\ Begin(p, "setAuth")
    /\ prevCleared' = FALSE
    /\ trace' = [trace EXCEPT ![p] = <<>>]
    /\ metrics' = [metrics EXCEPT ![p] = <<>>]
    /\ IF ~authConfigured
       THEN /\ pc' = pc
            /\ ret' = [ret EXCEPT ![p] = Return(NilErr)]
            /\ UNCHANGED <<clientNs, restore>>
       ELSE LET scope == useAuthNamespace(setStoreNamespace(clientNs))
            IN  /\ clientNs' = scope.ns
                /\ restore' = [restore EXCEPT ![p] = scope.restore]
                /\ pc' = [pc EXCEPT ![p] = "check"]
                /\ ret' = [ret EXCEPT ![p] = Running]
    /\ UNCHANGED <<store, token, saCfg, saCall, backend>>

\* a setAuth that never reuses the held token
reuse_never(res) == FALSE

\* what setAuth does with checkToken's result (auth.go 63-66)
reuse(res) == res.valid

\* a test that takes every credential, the empty one too, for a held token
tokenHeld_always(tok) == TRUE

\* 60: c.client.Token() != ""
tokenHeld(tok) == tok # ""

\* 58-66: validate a held token; reuse it when valid
setAuthCheck(p) ==
    /\ pc[p] = "check"
    /\ IF ~tokenHeld(token)
       THEN /\ pc' = [pc EXCEPT ![p] = "chain"]
            /\ UNCHANGED <<trace, ret, metrics, token>>
       ELSE \E resp \in backend :
              LET res == checkToken(resp)
              IN  /\ trace' = [trace EXCEPT ![p] =
                         Append(@, Event(CallLookupSelf, resp, res.valid, res.err))]
                  /\ metrics' = [metrics EXCEPT ![p] =
                         Append(@, Observation(CallLookupSelf, lookupCallErr(resp)))]
                  /\ token' = tokenAfterCheck(token, res)
                  /\ IF res.panic
                     THEN /\ ret' = [ret EXCEPT ![p] = Panicked]
                          /\ pc' = [pc EXCEPT ![p] = "defer"]
                     ELSE IF reuse(res)
                     THEN /\ ret' = [ret EXCEPT ![p] = Return(res.err)]
                          /\ pc' = [pc EXCEPT ![p] = "defer"]
                     ELSE /\ pc' = [pc EXCEPT ![p] = "chain"]
                          /\ UNCHANGED ret
    /\ UNCHANGED <<store, clientNs, op, restore, prevCleared, inRow, overlap, saCfg, saCall, backend>>

\* a chain that returns the last strategy's error whatever it reported
chainReturn_lastErr(name, err) == Return(err)

\* 110-115: the result after the last strategy invoked
chainReturn(name, err) ==
    IF attempted(name) THEN Return(err) ELSE Return(errAuthFormat)

\* 68-115: walk the strategies; return the first attempted one's error
setAuthChain(p) ==
    /\ pc[p] = "chain"
    /\ LET walk == chainWalk(1)
           last == walk[Len(walk)]
       IN  \E out \in tryAcquire(last) :
             /\ token' = out.tok
             /\ trace' = [trace EXCEPT ![p] = @ \o
                    [i \in 1..Len(walk) |->
                        Event(walk[i], NoResp, attempted(walk[i]),
                              IF i = Len(walk) THEN out.err ELSE NilErr)]]
             /\ ret' = [ret EXCEPT ![p] = chainReturn(last, out.err)]
    /\ pc' = [pc EXCEPT ![p] = "defer"]
    /\ UNCHANGED <<store, clientNs, op, restore, prevCleared, inRow, metrics, overlap, saCfg, saCall, backend>>

\* 56: the deferred restoreNamespace(), run as setAuth returns or panics
setAuthReturn(p) ==
    /\ pc[p] = "defer"
    /\ clientNs' = runRestore(restore[p], clientNs)
    /\ pc' = [pc EXCEPT ![p] = "idle"]
    /\ UNCHANGED <<store, token, op, restore, trace, ret, prevCleared, inRow,
                   metrics, overlap, saCfg, saCall, backend>>

(***************************************************************************)
(* revokeTokenIfValid (auth.go 193-207)                                    *)
(***************************************************************************)
\* 194-197: validate the token, whatever the handle holds
revokeCheck(p) ==
    /\ Begin(p, "revokeTokenIfValid")
    /\ prevCleared' = FALSE
    /\ \E resp \in backend :
         LET res == checkToken(resp)
         IN  /\ trace' = [trace EXCEPT ![p] =
                    <<Event(CallLookupSelf, resp, res.valid, res.err)>>]
             /\ metrics' = [metrics EXCEPT ![p] =
                    <<Observation(CallLookupSelf, lookupCallErr(resp))>>]
             /\ token' = tokenAfterCheck(token, res)
             /\ IF res.panic
                THEN /\ ret' = [ret EXCEPT ![p] = Panicked]
                     /\ pc' = pc
                ELSE IF res.err # NilErr
                THEN /\ ret' = [ret EXCEPT ![p] = Return(Wrap(errVaultRevokeToken, res.err))]
                     /\ pc' = pc
                ELSE IF res.valid
                THEN /\ ret' = [ret EXCEPT ![p] = Running]
                     /\ pc' = [pc EXCEPT ![p] = "revoke"]
                ELSE /\ ret' = [ret EXCEPT ![p] = Return(NilErr)]
                     /\ pc' = pc
    /\ UNCHANGED <<store, clientNs, restore, saCfg, saCall, backend>>

RevokeErrors == {NilErr, <<"revoke failed">>}

\* a revoker that clears the token whatever the revoke call returned
tokenAfterRevoke_always(held, err) == ""

\* 201-204: the held token after the revoke call returned err
tokenAfterRevoke(held, err) == IF err # NilErr THEN held ELSE ""

\* 198-205: revoke the token; clear it when that succeeded
revokeSelf(p) ==
    /\ pc[p] = "revoke"
    /\ \E err \in RevokeErrors :
         /\ trace' = [trace EXCEPT ![p] = Append(@, Event(CallRevokeSelf, NoResp, err = NilErr, err))]
         /\ metrics' = [metrics EXCEPT ![p] = Append(@, Observation(CallRevokeSelf, err))]
         /\ token' = tokenAfterRevoke(token, err)
         /\ IF err # NilErr
            THEN /\ ret' = [ret EXCEPT ![p] = Return(Wrap(errVaultRevokeToken, err))]
                 /\ UNCHANGED prevCleared
            ELSE /\ prevCleared' = TRUE
                 /\ ret' = [ret EXCEPT ![p] = Return(NilErr)]
    /\ pc' = [pc EXCEPT ![p] = "idle"]
    /\ UNCHANGED <<store, clientNs, op, restore, inRow, overlap, saCfg, saCall, backend>>

(***************************************************************************)
(* Specification: one flow owns the handle, so calls are serialized.       *)
(***************************************************************************)
Next ==
    \/ setAuthEnter(Owner)
    \/ setAuthCheck(Owner)
    \/ setAuthChain(Owner)
    \/ setAuthReturn(Owner)
    \/ revokeCheck(Owner)
    \/ revokeSelf(Owner)

Spec == Init /\ [][Next]_vars

(***************************************************************************)
(* checkToken on its own: a caller holding a token handle applies it to    *)
(* every result the lookup call can give.                                  *)
(***************************************************************************)
checkTokenCall(p) ==
    /\ pc[p] = "idle"
    /\ op' = [op EXCEPT ![p] = "checkToken"]
    /\ \E resp \in LookupResults :
         LET res == checkToken(resp)
         IN  /\ trace' = [trace EXCEPT ![p] =
                    <<Event(CallLookupSelf, resp, res.valid, res.err)>>]
             /\ metrics' = [metrics EXCEPT ![p] =
                    <<Observation(CallLookupSelf, lookupCallErr(resp))>>]
             /\ token' = tokenAfterCheck(token, res)
             /\ ret' = [ret EXCEPT ![p] = IF res.panic THEN Panicked ELSE Return(res.err)]
    /\ UNCHANGED <<store, clientNs, pc, restore, prevCleared, inRow, overlap, saCfg, saCall, backend>>

InitCheck == Init /\ ~store.auth /\ token # ""
NextCheck == checkTokenCall(Owner)
SpecCheck == InitCheck /\ [][NextCheck]_vars

(***************************************************************************)
(* Two flows on one handle, without serialization. Besides setAuth a flow  *)
(* performs secret operations: backend calls on the handle that are meant  *)
(* for the operating namespace and run under whatever namespace the handle *)
(* has at that moment. The handle was brought to the operating namespace   *)
(* when the client was built.                                              *)
(***************************************************************************)
CallReadSecret == "read-secret"

secretOp(p) ==
    /\ Begin(p, "secretOp")
    /\ trace' = [trace EXCEPT ![p] = <<Event(CallReadSecret, NoResp, TRUE, NilErr)>>]
    /\ metrics' = [metrics EXCEPT ![p] = <<>>]
    /\ ret' = [ret EXCEPT ![p] = Return(NilErr)]
    /\ prevCleared' = FALSE
    /\ UNCHANGED <<store, clientNs, token, pc, restore, saCfg, saCall, backend>>

\* the stores of the shared handle: an auth config with at most AppRole
SharedStores == {s \in Stores : s.auth /\ s.mechs \subseteq {"setAppRoleToken"}}

\* what the backend of the shared handle answers a self-lookup with: an
\* error, a token good for reuse, a token about to expire
SharedLookups ==
    {LookupErr(<<"permission denied">>),
     Secret(Data(Str("service"), Num(<<"6", "0">>), Expiry)),
     Secret(Data(Str("service"), Num(<<"5", "9">>), Expiry))}

InitConc ==
    /\ store \in SharedStores
    /\ clientNs = operatingNs
    /\ token \in {"", "t1"}
    /\ InitFlows
    /\ saCfg = NoCfg
    /\ saCall = NoCall
    /\ backend = SharedLookups

NextConc ==
    \E p \in Procs :
      \/ setAuthEnter(p)
      \/ setAuthCheck(p)
      \/ setAuthChain(p)
      \/ setAuthReturn(p)
      \/ secretOp(p)

SpecConc == InitConc /\ [][NextConc]_vars

(***************************************************************************)
(* createServiceAccountToken (auth.go 118-149): a caller with a store      *)
(* kind, an ambient namespace, a service account reference and an          *)
(* expiration asks for tokens, each time with additional audiences of its  *)
(* choice; the token-request API answers with a token or with an error.    *)
(***************************************************************************)
MaxAud == 2
MaxCalls == 2

ClusterSecretStoreKind == "ClusterSecretStore"
SecretStoreKind == "SecretStore"
StoreKinds == {SecretStoreKind, ClusterSecretStoreKind}
Namespaces == {"ns1", "ns2"}
AudNames == {"vault", "api"}
AudLists == UNION {[1..n -> AudNames] : n \in 0..MaxAud}
ServiceAccountRefs ==
    [Name : {"sa"}, Namespace : Namespaces \cup {Nil}, Audiences : AudLists]
ExpirationChoices == {600, 3600}
SACfgs ==
    [storeKind : StoreKinds, namespace : Namespaces,
     serviceAccountRef : ServiceAccountRefs, expirationSeconds : ExpirationChoices]
\* what CreateToken answers: a token, or an error
CreateTokenResults ==
    {[token |-> "sa-jwt", err |-> NilErr], [token |-> "", err |-> <<"forbidden">>]}

errGetKubeSATokenRequest ==
    "cannot request Kubernetes service account token for service account %q: %w"

\* audiences that are the additional ones alone when there are any
audiences_additionalOnly(serviceAccountRef, additionalAud) ==
    IF Len(additionalAud) > 0 THEN additionalAud ELSE serviceAccountRef.Audiences

\* 126-129: the reference's audiences, the additional ones appended
audiences(serviceAccountRef, additionalAud) ==
    IF Len(additionalAud) > 0
    THEN serviceAccountRef.Audiences \o additionalAud
    ELSE serviceAccountRef.Audiences

\* a request that follows the reference's namespace whatever the store kind
requestNamespace_anyKind(storeKind, namespace, serviceAccountRef) ==
    IF serviceAccountRef.Namespace # Nil THEN serviceAccountRef.Namespace ELSE namespace

\* 131-133, 139-142: the namespace of the request object
requestNamespace(storeKind, namespace, serviceAccountRef) ==
    IF storeKind = ClusterSecretStoreKind /\ serviceAccountRef.Namespace # Nil
    THEN serviceAccountRef.Namespace
    ELSE namespace

\* 130-142: the request object as it is when CreateToken is called
tokenRequest(cfg, additionalAud) ==
    [Namespace |-> requestNamespace(cfg.storeKind, cfg.namespace, cfg.serviceAccountRef),
     Audiences |-> audiences(cfg.serviceAccountRef, additionalAud),
     ExpirationSeconds |-> cfg.expirationSeconds]

\* 143: corev1Client.ServiceAccounts(tokenRequest.Namespace)
createTokenTarget(req) == req.Namespace

\* 118-149: the call made, and what it returns, given the API's answer
createServiceAccountToken(cfg, additionalAud, response) ==
    LET req == tokenRequest(cfg, additionalAud)
    IN  [state |-> "returned",
         additionalAud |-> additionalAud,
         request |-> req,
         target |-> createTokenTarget(req),
         name |-> cfg.serviceAccountRef.Name,
         response |-> response,
         token |-> IF response.err # NilErr THEN "" ELSE response.token,
         err |-> IF response.err # NilErr
                 THEN Wrap(<<errGetKubeSATokenRequest, cfg.serviceAccountRef.Name>>,
                           response.err)
                 ELSE NilErr]

createServiceAccountTokenCall ==
    /\ saCall.seq < MaxCalls
    /\ \E additionalAud \in AudLists, response \in CreateTokenResults :
         saCall' = [seq |-> saCall.seq + 1]
                      @@ createServiceAccountToken(saCfg, additionalAud, response)
    /\ UNCHANGED <<store, clientNs, token, pc, op, restore, trace, ret, prevCleared,
                   inRow, metrics, overlap, saCfg, backend>>

InitToken ==
    /\ store = [auth |-> FALSE, ns |-> Nil, authNs |-> Nil, mechs |-> {}]
    /\ clientNs = ""
    /\ token = ""
    /\ InitFlows
    /\ saCfg \in SACfgs
    /\ saCall = NoCall
    /\ backend = {}
NextToken == createServiceAccountTokenCall
SpecToken == InitToken /\ [][NextToken]_vars

(***************************************************************************)
(* Properties                                                              *)
(***************************************************************************)
\* the events of flow p's current (or last) call that satisfy Test
Events(p, Test(_)) == SelectSeq(trace[p], Test)
IsLookup(e) == e.op = CallLookupSelf
IsRevoke(e) == e.op = CallRevokeSelf
\* the eight mechanism strategies in the priority order of the policy
PriorityOrder ==
    <<"setSecretKeyToken", "setAppRoleToken", "setKubernetesAuthToken",
      "setLdapAuthToken", "setUserPassAuthToken", "setJwtAuthToken",
      "setCertAuthToken", "setIamAuthToken">>
IsStrategy(e) == \E i \in DOMAIN PriorityOrder : e.op = PriorityOrder[i]
Invoked(p) == Events(p, IsStrategy)
InvokedNames(p) == [i \in DOMAIN Invoked(p) |-> Invoked(p)[i].op]

InSetAuth(p) == op[p] = "setAuth" /\ ret[p].state # "none"
SetAuthDone(p) == InSetAuth(p) /\ pc[p] = "idle"
InRevoke(p) == op[p] = "revokeTokenIfValid"
RevokeDone(p) == InRevoke(p) /\ pc[p] = "idle"

\* a well-formed secret: the three fields, a string type, a number for ttl
WellFormed(resp) ==
    /\ resp.kind = "secret"
    /\ DOMAIN resp.data = Keys
    /\ resp.data["type"].t = "string"
    /\ resp.data["ttl"].t = "json.Number"
    /\ Int64(resp.data["ttl"].n).ok
TtlSeconds(resp) == Int64(resp.data["ttl"].n).val
IsBatchType(resp) == resp.data["type"] = Str("batch")

\* a lookup that reports ttlSeconds >= 60 and a type other than batch
ReportsReusable(resp) ==
    WellFormed(resp) /\ ~IsBatchType(resp) /\ TtlSeconds(resp) >= 60

\* C1 (short-circuit reuse): in a setAuth call with an auth config, once the
\* self-lookup of the held token has reported a well-formed secret with
\* ttlSeconds >= 60 and a type other than batch, the call is returning nil
\* and has invoked no mechanism strategy.
C1_ShortCircuitReuse ==
    \A p \in Procs :
      (InSetAuth(p) /\ \E i \in DOMAIN trace[p] :
            IsLookup(trace[p][i]) /\ ReportsReusable(trace[p][i].resp))
      => /\ pc[p] \in {"defer", "idle"}
         /\ ret[p] = Return(NilErr)
         /\ Invoked(p) = <<>>

\* a setAuth call that returned after reusing a token, with mechanisms
\* configured that it did not touch
C1_Witness ==
    /\ SetAuthDone(Owner)
    /\ store.mechs # {}
    /\ Len(trace[Owner]) = 1
    /\ ReportsReusable(trace[Owner][1].resp)
    /\ ret[Owner] = Return(NilErr)

\* C2 (priority order): once setAuth has walked the chain, the strategies
\* it invoked are a prefix of the priority order, none before the last is
\* configured, the last is the first configured one (or the eighth), the
\* call returns exactly the last one's error when it was attempted, and
\* with AppRole and Kubernetes both configured Kubernetes is not invoked.
C2_PriorityOrder ==
    \A p \in Procs :
      (InSetAuth(p) /\ Invoked(p) # <<>>)
      => LET n == Len(Invoked(p))
             last == Invoked(p)[n]
         IN  /\ InvokedNames(p) = SubSeq(PriorityOrder, 1, n)
             /\ \A i \in 1..(n - 1) :
                  /\ PriorityOrder[i] \notin store.mechs
                  /\ ~Invoked(p)[i].ok
             /\ n < Len(PriorityOrder) => PriorityOrder[n] \in store.mechs
             /\ last.ok <=> PriorityOrder[n] \in store.mechs
             /\ last.ok => ret[p] = Return(last.err)
             /\ {"setAppRoleToken", "setKubernetesAuthToken"} \subseteq store.mechs
                  => \A i \in 1..n : Invoked(p)[i].op # "setKubernetesAuthToken"

\* AppRole and Kubernetes both configured: AppRole was attempted and failed,
\* and setAuth returned its error
C2_Witness ==
    /\ SetAuthDone(Owner)
    /\ store.mechs = {"setAppRoleToken", "setKubernetesAuthToken"}
    /\ Len(Invoked(Owner)) = 2
    /\ Invoked(Owner)[2].op = "setAppRoleToken"
    /\ Invoked(Owner)[2].err # NilErr
    /\ ret[Owner] = Return(Invoked(Owner)[2].err)

\* the operating namespace of the store: its Namespace, or "" when unset
OperatingNamespace == IF store.ns = Nil THEN "" ELSE store.ns

\* C3 (namespace restore): after a setAuth call with an auth config has
\* returned (or panicked), on whatever path, the handle's active namespace
\* is the operating namespace.
C3_NamespaceRestore ==
    \A p \in Procs :
      (SetAuthDone(p) /\ store.auth) => clientNs = OperatingNamespace

\* a call under a different auth namespace, with the operating namespace
\* set, whose mechanism attempt failed
C3_Witness ==
    /\ SetAuthDone(Owner)
    /\ store.ns = "a" /\ store.authNs = "b"
    /\ ret[Owner].err # NilErr /\ ret[Owner].err # errAuthFormat
    /\ \E i \in DOMAIN trace[Owner] : trace[Owner][i].ns = "b"

\* a lookup that allowed the reuse of the token
Reused(p) == \E i \in DOMAIN trace[p] : IsLookup(trace[p][i]) /\ trace[p][i].ok

\* C4 (no-mechanism case): a setAuth call with an auth config whose
\* strategies all report attempted=false, and which reused no token,
\* returns the no-valid-auth-method error; and a call returns that error
\* only after invoking all eight strategies, none of which was attempted.
C4_NoMechanism ==
    \A p \in Procs :
      (SetAuthDone(p) /\ ret[p].state = "returned")
      => /\ (store.auth /\ store.mechs = {} /\ ~Reused(p))
               => ret[p].err = errAuthFormat
         /\ ret[p].err = errAuthFormat
               => /\ InvokedNames(p) = PriorityOrder
                  /\ \A i \in DOMAIN Invoked(p) : ~Invoked(p)[i].ok
                  /\ store.mechs = {}

\* no mechanism configured and an expiring token held: the error is returned
C4_Witness ==
    /\ SetAuthDone(Owner)
    /\ store.auth /\ store.mechs = {}
    /\ Len(trace[Owner]) = 9
    /\ ret[Owner] = Return(errAuthFormat)

\* C5 (revoke idempotence), as claimed: a revokeTokenIfValid call that
\* revoked a valid token returned nil and left the credential empty, and the
\* revokeTokenIfValid call made right after it returns nil as well, the
\* credential still empty.
C5_RevokeIdempotence ==
    \A p \in Procs :
      /\ (RevokeDone(p) /\ prevCleared) => (ret[p] = Return(NilErr) /\ token = "")
      /\ (RevokeDone(p) /\ inRow[p] /\ ret[p].state = "returned")
            => (ret[p].err = NilErr /\ token = "")

\* the event of the checkToken call flow p made on its own
Checked(p) == trace[p][1]
CheckTokenDone(p) == op[p] = "checkToken"
Lacks(resp, key) == resp.kind = "secret" /\ key \notin DOMAIN resp.data
HasString(resp, key) ==
    resp.kind = "secret" /\ key \in DOMAIN resp.data /\ resp.data[key].t = "string"
NonBatch(resp) == HasString(resp, "type") /\ resp.data["type"] # Str("batch")
ReturnedError(p) == ret[p].state = "returned" /\ ret[p].err # NilErr /\ ~Checked(p).ok
ReturnedInvalid(p) == ret[p] = Return(NilErr) /\ ~Checked(p).ok
ReturnedValid(p) == ret[p] = Return(NilErr) /\ Checked(p).ok

\* C6 (malformed response), as claimed: for a response that lacks the type,
\* the ttl or the expire_time, whatever its other fields, checkToken never
\* returns (false, nil) or (true, nil).
C6_MalformedAlwaysError ==
    \A p \in Procs :
      (CheckTokenDone(p) /\ \E k \in Keys : Lacks(Checked(p).resp, k))
      => ~(ret[p] = Return(NilErr))

\* C6, amended: checkToken returns an error for a response that lacks the
\* type, for one of a string type other than batch that lacks the ttl, and
\* for one of such a type with a json.Number ttl that lacks the expire_time;
\* for a response of type batch it returns (false, nil) whatever is missing.
C6_MalformedError ==
    \A p \in Procs :
      CheckTokenDone(p)
      => LET resp == Checked(p).resp
         IN  /\ Lacks(resp, "type") => ReturnedError(p)
             /\ (NonBatch(resp) /\ Lacks(resp, "ttl")) => ReturnedError(p)
             /\ (NonBatch(resp) /\ ~Lacks(resp, "ttl")
                   /\ resp.data["ttl"].t = "json.Number" /\ Lacks(resp, "expire_time"))
                  => ReturnedError(p)
             /\ (HasString(resp, "type") /\ ~NonBatch(resp)
                   /\ \E k \in Keys : Lacks(resp, k))
                  => ReturnedInvalid(p)

\* a service token's response without ttl gave the no-TTL error
C6_Witness ==
    /\ CheckTokenDone(Owner)
    /\ Checked(Owner).resp = Secret(Data(Str("service"), Absent, Null))
    /\ ret[Owner] = Return(<<"no TTL found in response">>)

\* C7 (expiry buffer and its asymmetry): for a well-formed response of a
\* type other than batch, checkToken returns (false, nil) when ttl < 60 and
\* expire_time is not null, (true, nil) when ttl < 60 and expire_time is
\* null, and (true, nil) when ttl >= 60.
C7_ExpiryBuffer ==
    \A p \in Procs :
      (CheckTokenDone(p) /\ WellFormed(Checked(p).resp) /\ ~IsBatchType(Checked(p).resp))
      => LET resp == Checked(p).resp
             expiring == resp.data["expire_time"] # Null
         IN  /\ (TtlSeconds(resp) < 60 /\ expiring) => ReturnedInvalid(p)
             /\ (TtlSeconds(resp) < 60 /\ ~expiring) => ReturnedValid(p)
             /\ TtlSeconds(resp) >= 60 => ReturnedValid(p)

\* ttl = 59 with an expiration time: invalid, no error
C7_Witness ==
    /\ CheckTokenDone(Owner)
    /\ Checked(Owner).resp = Secret(Data(Str("service"), Num(<<"5", "9">>), Expiry))
    /\ ReturnedInvalid(Owner)

\* the lookups of batch tokens among the events of flow p's call
BatchLookups(p) ==
    {i \in DOMAIN trace[p] :
        /\ IsLookup(trace[p][i])
        /\ trace[p][i].resp.kind = "secret"
        /\ "type" \in DOMAIN trace[p][i].resp.data
        /\ trace[p][i].resp.data["type"] = Str("batch")}

\* C8 (batch exclusion): a lookup that reports type = batch makes checkToken
\* return (false, nil) whatever the ttl; setAuth then does not reuse the
\* token (it returns only after walking the chain) and revokeTokenIfValid
\* returns nil without a revoke call, the token still held.
C8_BatchExclusion ==
    \A p \in Procs : \A i \in BatchLookups(p) :
      /\ ~trace[p][i].ok /\ trace[p][i].err = NilErr
      /\ (InSetAuth(p) /\ pc[p] \in {"defer", "idle"}) => Invoked(p) # <<>>
      /\ InRevoke(p)
           => /\ pc[p] = "idle" /\ ret[p] = Return(NilErr)
              /\ Events(p, IsRevoke) = <<>>
              /\ token = trace[p][i].tok

\* a batch token with ttl 3600 was held: revokeTokenIfValid left it alone
C8_Witness ==
    /\ RevokeDone(Owner)
    /\ BatchLookups(Owner) = {1}
    /\ trace[Owner][1].resp = Secret(Data(Str("batch"), Num(<<"3", "6", "0", "0">>), Expiry))
    /\ token = "t1"

\* C9 (optional authentication): with no auth config a setAuth call returns
\* nil in its first step, having made no lookup and invoked no strategy,
\* and that step leaves the handle's namespace and the held token as they
\* were.
C9_OptionalAuth ==
    /\ [](\A p \in Procs :
            (op[p] = "setAuth" /\ ~store.auth)
            => pc[p] = "idle" /\ ret[p] = Return(NilErr) /\ trace[p] = <<>>)
    /\ [][\A p \in Procs :
            (~store.auth /\ setAuthEnter(p))
            => (token' = token /\ clientNs' = clientNs /\ restore' = restore)]_vars

\* no auth config, an operating namespace and a held token: setAuth returned
\* nil and the handle's namespace was never set
C9_Witness ==
    /\ op[Owner] = "setAuth" /\ ~store.auth
    /\ store.ns = "a" /\ clientNs = "" /\ token = "t1"
    /\ ret[Owner] = Return(NilErr)

\* C10 (revoker effect): revokeTokenIfValid makes the revoke call only after
\* a lookup checkToken found valid; once it has returned, the credential is
\* empty if the token was valid and the revoke call succeeded and is the one
\* held before otherwise; it returns the wrapped error when checkToken or
\* the revoke call failed and nil when the token was invalid.
C10_RevokerEffect ==
    \A p \in Procs :
      InRevoke(p)
      => LET look == trace[p][1]
             revokes == Events(p, IsRevoke)
         IN  /\ IsLookup(look) /\ Len(revokes) <= 1
             /\ revokes # <<>> => (look.ok /\ look.err = NilErr)
             /\ pc[p] = "idle"
                  => /\ (look.ok /\ look.err = NilErr) => Len(revokes) = 1
                     /\ IF revokes # <<>> /\ revokes[1].err = NilErr
                        THEN token = "" /\ ret[p] = Return(NilErr)
                        ELSE token = look.tok
                     /\ (ret[p].state = "returned" /\ look.err # NilErr)
                          => ret[p] = Return(<<errVaultRevokeToken>> \o look.err)
                     /\ (revokes # <<>> /\ revokes[1].err # NilErr)
                          => ret[p] = Return(<<errVaultRevokeToken>> \o revokes[1].err)
                     /\ (ret[p].state = "returned" /\ look.err = NilErr /\ ~look.ok)
                          => ret[p] = Return(NilErr)

\* the revoke call failed: the wrapped error, the token still held
C10_Witness ==
    /\ RevokeDone(Owner)
    /\ Len(trace[Owner]) = 2
    /\ trace[Owner][2].err # NilErr
    /\ token = "t1"
    /\ ret[Owner] = Return(<<errVaultRevokeToken>> \o trace[Owner][2].err)

\* the self-lookup events of flow p's call that ended in an error
FailedLookups(p) == Events(p, LAMBDA e : IsLookup(e) /\ e.err # NilErr)

\* C11 (first definitive error), as claimed: a setAuth call whose self-lookup
\* of the held token failed (backend error, nil or malformed response)
\* returns that lookup error to the caller, whatever a later mechanism
\* attempt yields.
C11_FirstDefinitiveError ==
    \A p \in Procs :
      (SetAuthDone(p) /\ ret[p].state = "returned" /\ FailedLookups(p) # <<>>)
      => ret[p].err = FailedLookups(p)[1].err

\* the strategy invocations of flow p's call that reported attempted
Attempts(p) == Events(p, LAMBDA e : IsStrategy(e) /\ e.ok)

\* C12 (no retries): within one setAuth call the self-lookup is performed at
\* most once and before any strategy, each strategy is invoked at most once,
\* at most one strategy is attempted, and the attempted one is the last
\* backend operation of the call: when it failed, the call returns its
\* error with no further lookup or strategy invocation.
C12_NoRetries ==
    \A p \in Procs :
      InSetAuth(p)
      => /\ Len(Events(p, IsLookup)) <= 1
         /\ \A i \in DOMAIN trace[p] : IsLookup(trace[p][i]) => i = 1
         /\ \A i, j \in DOMAIN Invoked(p) :
              Invoked(p)[i].op = Invoked(p)[j].op => i = j
         /\ Len(Attempts(p)) <= 1
         /\ \A i \in DOMAIN trace[p] :
              (IsStrategy(trace[p][i]) /\ trace[p][i].ok)
              => /\ i = Len(trace[p])
                 /\ pc[p] \in {"defer", "idle"}
                 /\ ret[p] = Return(trace[p][i].err)

\* a call that looked the held token up once, found it expiring, attempted
\* AppRole once, and returned AppRole's error
C12_Witness ==
    /\ SetAuthDone(Owner)
    /\ store.mechs = {"setAppRoleToken"}
    /\ Len(trace[Owner]) = 3
    /\ IsLookup(trace[Owner][1]) /\ ~trace[Owner][1].ok
    /\ trace[Owner][3].op = "setAppRoleToken"
    /\ trace[Owner][3].err # NilErr
    /\ ret[Owner] = Return(trace[Owner][3].err)

\* the last event of flow p's call, as the next state has it
LastEvent(p) == trace'[p][Len(trace'[p])]

\* flow p's step is the chain walk of setAuth, ending in a strategy that
\* was attempted and acquired a token
AcquisitionStep(p) ==
    /\ op[p] = "setAuth" /\ pc[p] = "chain" /\ pc'[p] = "defer"
    /\ IsStrategy(LastEvent(p)) /\ LastEvent(p).ok /\ LastEvent(p).err = NilErr

\* flow p's step is the self-revoke of revokeTokenIfValid, and it succeeded
RevokeClearStep(p) ==
    /\ op[p] = "revokeTokenIfValid" /\ pc[p] = "revoke" /\ pc'[p] = "idle"
    /\ IsRevoke(LastEvent(p)) /\ LastEvent(p).err = NilErr
    /\ token' = ""

\* the credential the handle held when flow p's call made its first
\* backend operation
TokenAtEntry(p) == trace[p][1].tok

\* C13 (credential ownership): over serialized setAuth and
\* revokeTokenIfValid calls the credential changes only in the step in
\* which a strategy of setAuth acquires a token, or in the step in which
\* revokeTokenIfValid clears it after a successful self-revoke; no lookup
\* changes it; and a setAuth call that reused the held token or returned the
\* no-valid-auth-method error leaves the credential as it found it.
C13_CredentialOwnership ==
    /\ [][token' # token => \E p \in Procs : AcquisitionStep(p) \/ RevokeClearStep(p)]_vars
    /\ [](\A p \in Procs :
            (InSetAuth(p) /\ pc[p] \in {"defer", "idle"} /\ trace[p] # <<>>
               /\ (Reused(p) \/ ret[p] = Return(errAuthFormat)))
            => token = TokenAtEntry(p))

\* an expiring token was detected, no mechanism is configured, and the call
\* returned the no-valid-auth-method error with the token still held
C13_Witness ==
    /\ SetAuthDone(Owner)
    /\ Len(trace[Owner]) = 9
    /\ IsLookup(trace[Owner][1])
    /\ trace[Owner][1].resp = Secret(Data(Str("service"), Num(<<"5", "9">>), Expiry))
    /\ ret[Owner] = Return(errAuthFormat)
    /\ token = "t1"

\* the namespace the backend operations of setAuth are to run under: the
\* auth namespace when one is configured and differs from the operating
\* namespace, the operating namespace otherwise
AuthScope ==
    IF store.authNs # Nil /\ store.authNs # OperatingNamespace
    THEN store.authNs
    ELSE OperatingNamespace

\* C14 (auth scope during negotiation): in a setAuth call that has the
\* handle to itself, every self-lookup and every strategy invocation runs
\* under the auth scope; the handle is in that scope from before the token
\* validation until after the last strategy invocation, and back in the
\* operating namespace once the call has returned.
C14_AuthScope ==
    \A p \in Procs :
      (op[p] = "setAuth" /\ store.auth)
      => /\ \A i \in DOMAIN trace[p] : trace[p][i].ns = AuthScope
         /\ pc[p] \in {"check", "chain", "defer"} => clientNs = AuthScope
         /\ (pc[p] = "idle" /\ ret[p].state # "none") => clientNs = OperatingNamespace

\* the lookup and the failed login both ran under auth namespace b, the
\* store operating in namespace a, to which the handle is back
C14_Witness ==
    /\ SetAuthDone(Owner)
    /\ store.ns = "a" /\ store.authNs = "b"
    /\ Len(trace[Owner]) >= 2
    /\ IsLookup(trace[Owner][1]) /\ trace[Owner][1].ns = "b"
    /\ IsStrategy(trace[Owner][Len(trace[Owner])])
    /\ trace[Owner][Len(trace[Owner])].ok
    /\ trace[Owner][Len(trace[Owner])].ns = "b"
    /\ clientNs = "a"

\* the lookup-self observations handed to the metrics sink in flow p's call
LookupObservations(p) == SelectSeq(metrics[p], LAMBDA m : m.call = CallLookupSelf)

\* C19 (no lookup without a token): a setAuth call with an auth config that
\* found the credential empty performs no self-lookup and emits no lookup
\* event, its first backend operation being the first strategy of the
\* chain; so the setAuth call made right after a revokeTokenIfValid that
\* revoked and cleared the token performs no lookup.
C19_NoLookupWithoutToken ==
    \A p \in Procs :
      (op[p] = "setAuth" /\ store.auth)
      => /\ \A i \in DOMAIN trace[p] : IsLookup(trace[p][i]) => trace[p][i].tok # ""
         /\ (trace[p] # <<>> /\ TokenAtEntry(p) = "")
               => /\ trace[p][1].op = PriorityOrder[1]
                  /\ LookupObservations(p) = <<>>
         /\ (pc[p] = "chain" /\ token = "") => (trace[p] = <<>> /\ metrics[p] = <<>>)
         /\ inRow[p] => (Events(p, IsLookup) = <<>> /\ LookupObservations(p) = <<>>)

\* the setAuth call right after a clearing revoke walked the whole chain
\* without a lookup
C19_Witness ==
    /\ SetAuthDone(Owner)
    /\ inRow[Owner]
    /\ store.auth
    /\ Len(trace[Owner]) = 8
    /\ trace[Owner][1].op = "setSecretKeyToken"
    /\ trace[Owner][1].tok = ""
    /\ metrics[Owner] = <<>>

\* the revoke-self observations handed to the metrics sink in flow p's call
RevokeObservations(p) == SelectSeq(metrics[p], LAMBDA m : m.call = CallRevokeSelf)

\* the error of the lookup call itself: the backend's error, nil when the
\* backend answered, whatever the answer holds
LookupCallError(resp) == IF resp.kind = "err" THEN resp.e ELSE NilErr

TokenRequested == saCall.state = "returned"

\* the store is of the cluster-wide kind and the reference names a namespace
NamespaceOverride ==
    saCfg.storeKind = "ClusterSecretStore" /\ saCfg.serviceAccountRef.Namespace # Nil

\* C17 (request namespace routing): createServiceAccountToken takes the
\* request's namespace from the service account reference when the store is
\* of the cluster-wide kind and the reference carries a namespace, and from
\* the ambient namespace in every other case; the request object and the
\* CreateToken call are addressed to that same namespace.
C17_NamespaceRouting ==
    TokenRequested
    => /\ NamespaceOverride
            => saCall.request.Namespace = saCfg.serviceAccountRef.Namespace
       /\ ~NamespaceOverride => saCall.request.Namespace = saCfg.namespace
       /\ saCall.target = saCall.request.Namespace
       /\ saCall.name = saCfg.serviceAccountRef.Name

\* a namespaced store whose reference names another namespace: the request
\* went to the ambient one
C17_Witness ==
    /\ TokenRequested
    /\ saCfg.storeKind = "SecretStore"
    /\ saCfg.namespace = "ns1"
    /\ saCfg.serviceAccountRef.Namespace = "ns2"
    /\ saCall.target = "ns1"

\* the elements of a list
Range(seq) == {seq[i] : i \in DOMAIN seq}

\* C18 (token request contents): the audiences of the request are, as a
\* set, the union of the reference's audiences and the additional ones, and
\* the reference's list itself when no additional ones are given; the
\* requested expiration is the caller's; each call builds its request from
\* its own arguments alone; and a failure of the token-request API comes
\* back as an error with an empty token, a success as the API's token.
C18_RequestContents ==
    TokenRequested
    => /\ Range(saCall.request.Audiences)
            = Range(saCfg.serviceAccountRef.Audiences) \cup Range(saCall.additionalAud)
       /\ saCall.additionalAud = <<>>
            => saCall.request.Audiences = saCfg.serviceAccountRef.Audiences
       /\ saCall.request.ExpirationSeconds = saCfg.expirationSeconds
       /\ saCall.response.err # NilErr => (saCall.token = "" /\ saCall.err # NilErr)
       /\ saCall.response.err = NilErr
            => (saCall.token = saCall.response.token /\ saCall.err = NilErr)

\* a second call, with an additional audience, that the API refused
C18_Witness ==
    /\ TokenRequested
    /\ saCall.seq = 2
    /\ saCfg.serviceAccountRef.Audiences = <<"vault">>
    /\ saCall.additionalAud = <<"api">>
    /\ saCall.request.Audiences = <<"vault", "api">>
    /\ saCall.token = ""
    /\ saCall.err # NilErr

\* the namespace a backend operation of flow p's call is meant for: the auth
\* scope for the lookups and logins of setAuth, the operating namespace for
\* a secret operation
IntendedNamespace(p) == IF op[p] = "setAuth" THEN AuthScope ELSE OperatingNamespace

\* a backend operation of flow p's call ran under another namespace than
\* the one it is meant for
Misrouted(p) == \E i \in DOMAIN trace[p] : trace[p][i].ns # IntendedNamespace(p)

\* C15 (non-atomic namespace scope): with two flows on one handle and no
\* locking, a backend operation runs under a namespace it is not meant for
\* only in a call that overlapped a call of the other flow; a call that had
\* the handle to itself from entry to return (the serialized case) has all
\* its backend operations under the namespace they are meant for. That
\* misrouted operations are reachable is what the witness shows.
C15_MisroutedOnlyWhenOverlapping ==
    \A p \in Procs : Misrouted(p) => overlap[p]

\* a secret operation of one flow ran under the auth namespace that the
\* other flow's setAuth, still in progress, had set on the handle
C15_Witness ==
    /\ op["other"] = "secretOp"
    /\ store.ns = "a" /\ store.authNs = "b"
    /\ trace["other"][1].op = "read-secret"
    /\ trace["other"][1].ns = "b"
    /\ op[Owner] = "setAuth" /\ pc[Owner] \in {"check", "chain", "defer"}

\* a login of one flow's setAuth ran under the operating namespace, the
\* other flow's setAuth having restored it in between
C15_LoginAfterForeignRestore ==
    /\ store.ns = "a" /\ store.authNs = "b"
    /\ op[Owner] = "setAuth" /\ op["other"] = "setAuth"
    /\ SetAuthDone("other")
    /\ \E i \in DOMAIN trace[Owner] :
         /\ trace[Owner][i].op = "setAppRoleToken"
         /\ trace[Owner][i].ns = "a"

====
